---- MODULE Spec2Model ----
(***************************************************************************)
(* Cantilever beam solvers of src/services/beamSolver.ts                   *)
(* (solveNonlinearBeam, solveLinearBeam, solvePRB1R, solvePRB3R) as a      *)
(* state machine: one call at a time, one action per loop iteration.       *)
(*                                                                         *)
(* Numbers.  A JavaScript number is modelled as an integer count of        *)
(* 1/Scale units (a decimal grid on which every literal of the program     *)
(* that enters the arithmetic is exact), with three reserved integers for  *)
(* NaN, +Infinity and -Infinity.  +, -, *, / round to the nearest grid     *)
(* point and follow IEEE-754 on the special values; Math.cos and Math.sin  *)
(* are evaluated by quadrant reduction and a Taylor polynomial.  Signed    *)
(* zero is not modelled (it decides only the sign of an infinity).         *)
(***************************************************************************)
EXTENDS Integers, Sequences, FiniteSets, TLC

\* ------------------------------------------------------------ numbers

\* Grid resolution: 1/Scale.  600 | Scale makes L/100, ds/2 and ds/6 exact for
\* whole L; 10000 | Scale makes the four-decimal PRB literals exact.
Scale == 3 * 10000
\* Scale = ScaleA * ScaleB * ScaleC: the quotient is taken in three stages.
ScaleA == 40
ScaleB == 30
ScaleC == Scale \div (ScaleA * ScaleB)

NaN == 2147483647
PInf == 2147483646
NInf == -2147483646

IsFinite(v) == NInf < v /\ v < PInf
IsNaN(v) == v = NaN

Sgn(v) == IF v > 0 THEN 1 ELSE IF v < 0 THEN -1 ELSE 0
IAbs(v) == IF v < 0 THEN -v ELSE v

\* n/d as a number (n, d integer literals of the source, d | n*Scale).
Num(n, d) == (n * Scale) \div d

\* Round-half-away-from-zero quotient of integers, d > 0.
RDiv(a, d) == Sgn(a) * ((2 * IAbs(a) + d) \div (2 * d))

FNeg(a) == IF a = NaN THEN NaN ELSE -a

FAdd(a, b) ==
  IF IsFinite(a) /\ IsFinite(b) THEN a + b
  ELSE IF a = NaN \/ b = NaN THEN NaN
  ELSE IF IsFinite(a) THEN b
  ELSE IF IsFinite(b) THEN a
  ELSE IF a = b THEN a ELSE NaN

FSub(a, b) == FAdd(a, FNeg(b))

\* |a|*|b|/Scale rounded, without leaving 32 bits.
MulAbs(a, b) ==
  LET qa == a \div Scale
      ra == a % Scale
      qb == b \div Scale
      rb == b % Scale
  IN  qa * qb * Scale + qa * rb + ra * qb + (ra * rb + Scale \div 2) \div Scale

FMul(a, b) ==
  IF IsFinite(a) /\ IsFinite(b)
  THEN IF a = 0 \/ b = 0 THEN 0
       ELSE Sgn(a) * Sgn(b) * MulAbs(IAbs(a), IAbs(b))
  ELSE IF a = NaN \/ b = NaN THEN NaN
  ELSE IF a = 0 \/ b = 0 THEN NaN
  ELSE IF Sgn(a) * Sgn(b) > 0 THEN PInf ELSE NInf

\* |a|*Scale/|b| rounded, b > 0.
DivAbs(a, b) ==
  LET q == a \div b
      r == a % b
      q1 == (r * ScaleA) \div b
      r1 == (r * ScaleA) % b
      q2 == (r1 * ScaleB) \div b
      r2 == (r1 * ScaleB) % b
  IN  q * Scale + q1 * (ScaleB * ScaleC) + q2 * ScaleC + (2 * r2 * ScaleC + b) \div (2 * b)

FDiv(a, b) ==
  IF IsFinite(a) /\ IsFinite(b)
  THEN IF b = 0 THEN (IF a = 0 THEN NaN ELSE IF a > 0 THEN PInf ELSE NInf)
       ELSE IF a = 0 THEN 0
       ELSE Sgn(a) * Sgn(b) * DivAbs(IAbs(a), IAbs(b))
  ELSE IF a = NaN \/ b = NaN THEN NaN
  ELSE IF ~IsFinite(b) THEN (IF IsFinite(a) THEN 0 ELSE NaN)
  ELSE IF b >= 0 THEN a ELSE -a

FAbs(a) == IF a = NaN THEN NaN ELSE IAbs(a)

FLt(a, b) == a # NaN /\ b # NaN /\ a < b
FGt(a, b) == FLt(b, a)

\* a < n/d for a literal n/d that may lie below the grid resolution (1e-6, 1e-8).
FLtLit(a, n, d) == a = NInf \/ (IsFinite(a) /\ a <= (n * Scale - 1) \div d)

FMax(a, b) == IF a = NaN \/ b = NaN THEN NaN ELSE IF a > b THEN a ELSE b
FMin(a, b) == IF a = NaN \/ b = NaN THEN NaN ELSE IF a < b THEN a ELSE b

\* pi/2 on the grid.
HalfPi == Num(15708, 10000)

Quadrant(x) == RDiv(x, HalfPi)
Reduced(x) == x - Quadrant(x) * HalfPi

\* sin r and cos r for |r| <= pi/4: r - r^3/6 + r^5/120 and
\* 1 - r^2/2 + r^4/24 - r^6/720, in Horner form on r2 = r*r.
SinHorner(r, r2) == FMul(r, Scale - RDiv(FMul(r2, Scale - RDiv(r2, 20)), 6))
CosHorner(r2) ==
  Scale - RDiv(FMul(r2, Scale - RDiv(FMul(r2, Scale - RDiv(r2, 30)), 12)), 2)
SinPoly(r) == SinHorner(r, FMul(r, r))
CosPoly(r) == CosHorner(FMul(r, r))

Signed(negative, v) == IF negative THEN -v ELSE v

\* sin and cos of q*pi/2 + r.
QuarterSin(q, r) == Signed(q >= 2, IF q % 2 = 0 THEN SinPoly(r) ELSE CosPoly(r))
QuarterCos(q, r) == Signed(q \in {1, 2}, IF q % 2 = 0 THEN CosPoly(r) ELSE SinPoly(r))

\* Math.sin, Math.cos
FSin(x) == IF ~IsFinite(x) THEN NaN ELSE QuarterSin(Quadrant(x) % 4, Reduced(x))
FCos(x) == IF ~IsFinite(x) THEN NaN ELSE QuarterCos(Quadrant(x) % 4, Reduced(x))

\* ------------------------------------------------------------- types

\* enum BeamModelType
LINEAR == "Linear Theory (Small Deflection)"
NONLINEAR == "Nonlinear Theory (Numerical ODE)"
PRB_1R_CANTILEVER_P == "PRB 1R: Cantilever Vertical Force (A.1.2)"
PRB_1R_CANTILEVER_PNP == "PRB 1R: Cantilever General Force (A.1.3)"
PRB_1R_MOMENT == "PRB 1R: Applied Moment (A.1.5)"
PRB_3R_SU == "PRB 3R: Combined Force-Moment (Su Table A.5.3)"

BeamModelType ==
  {LINEAR, NONLINEAR, PRB_1R_CANTILEVER_P, PRB_1R_CANTILEVER_PNP, PRB_1R_MOMENT, PRB_3R_SU}

PRB1RTypes == {PRB_1R_CANTILEVER_P, PRB_1R_CANTILEVER_PNP, PRB_1R_MOMENT}

\* enum CrossSectionType, enum UnitSystem
RECTANGULAR == "Rectangular"
CIRCULAR == "Circular"
METRIC == "Metric"
ENGLISH == "English"

\* interface Point
Point(px, py) == [x |-> px, y |-> py]

\* interface BeamParams, from whole numbers of SI units; c and A are carried along.
BeamParams(E, I, L, P, nP, M0) ==
  [E |-> Num(E, 1), I |-> Num(I, 1), L |-> Num(L, 1), P |-> Num(P, 1),
   nP |-> Num(nP, 1), M0 |-> Num(M0, 1), c |-> Num(1, 2), A |-> Num(1, 1)]

\* const EI = E * I
EIof(p) == FMul(p.E, p.I)

\* ------------------------------------------------------------- inputs

MaxLoad == 1
MaxRatio == 15
MaxCalls == 3

Loads == (-MaxLoad)..MaxLoad

\* No load, every stiffness (I = 0 included).
ZeroLoadInputs ==
  {BeamParams(E, I, L, 0, 0, 0) : E \in {1, 2}, I \in {0, 1}, L \in {1, 2}}

\* Degenerate stiffness E*I = 0 under every load combination.
DegenerateInputs ==
  {BeamParams(1, 0, 1, P, nP, M0) : P \in Loads, nP \in Loads, M0 \in Loads}

\* A sweep of the load ratio n = nP/P (P = 0 included).
RatioInputs ==
  {BeamParams(1, 0, 1, P, nP, 0) : P \in {-1, 0, 1}, nP \in (-MaxRatio)..MaxRatio}

\* Loaded beams of nonzero stiffness.
LoadedInputs ==
  {BeamParams(2, 1, 1, 1, 0, 0), BeamParams(2, 1, 1, 1, 1, 0),
   BeamParams(2, 1, 1, -1, -1, 0), BeamParams(2, 1, 1, 0, 0, 1),
   BeamParams(1, 1, 1, 1, 1, -1), BeamParams(2, 1, 2, 0, 1, 0),
   BeamParams(8, 1, 1, 0, 2, 1), BeamParams(8, 1, 1, 1, 9, 0)}

Inputs == ZeroLoadInputs \cup DegenerateInputs \cup RatioInputs \cup LoadedInputs

\* -------------------------------------------------------------- state

VARIABLES
  params,   \* the BeamParams value every call of the behaviour is given
  pc,       \* "idle", the solver whose loop is running, or "done" (returned)
  model,    \* the BeamModelType selector of the current call
  frame,    \* the locals of the running solver
  work,     \* loop iterations executed by the current call, and the load point
            \* (a, b) its last shooting pass integrated with
  result,   \* the BeamResult returned by the current call
  calls,    \* calls completed and recorded by the caller
  first,    \* what the caller recorded of its first call
  unitSystem,      \* App state: the unit system of the controls
  sectionType,     \* App state: the cross-section type
  dimensions,      \* App state: width, height, diameter as displayed
  selectedModels,  \* App state: the selectors chosen, in order
  results,         \* the list the results memo has built so far
  events           \* control events handled so far

\* The state of the App component besides params.
app == <<unitSystem, sectionType, dimensions, selectedModels, results, events>>

vars == <<params, pc, model, frame, work, result, calls, first, app>>

NoFrame == [iter |-> 0]
NoWork ==
  [passes |-> 0, rk4 |-> 0, stations |-> 0, newton |-> 0, relax |-> 0,
   a |-> 0, b |-> 0]
NoResult == [points |-> <<>>]
NoCall == [model |-> "", params |-> [L |-> 0], result |-> NoResult]

\* ------------------------------------------------- solveNonlinearBeam

steps == 100
MaxPasses == 15

\* The guard testing for a negative stiffness instead of a zero one.
Degenerate_Negative(EI) == EI < 0

\* if (EI === 0) return ...
Degenerate(EI) == EI = 0

EmptyResult ==
  [points |-> <<>>, tipX |-> 0, tipY |-> 0, tipAngle |-> 0, maxStress |-> 0,
   label |-> "Nonlinear", color |-> "#ef4444"]

\* A shooting loop warm-started from the tip the caller's first call returned.
InitialGuess_WarmStart(p) ==
  IF calls = 0 THEN [a |-> p.L, b |-> 0]
  ELSE [a |-> first.result.tipX, b |-> first.result.tipY]

\* let a = L; let b = 0
InitialGuess(p) == [a |-> p.L, b |-> 0]

\* The bending moment taken with the full arm to the tip at every station.
getDerivatives_FixedArm(p, EI, a, b, cx, cy, ct) ==
  [dx |-> FCos(ct), dy |-> FSin(ct),
   dt |-> FDiv(FAdd(FAdd(FMul(p.P, a), FMul(p.nP, b)), p.M0), EI)]

\* getDerivatives(cx, cy, ct), with the a, b and parameters it closes over.
getDerivatives(p, EI, a, b, cx, cy, ct) ==
  LET M == FAdd(FAdd(FMul(p.P, FSub(a, cx)), FMul(p.nP, FSub(b, cy))), p.M0)
  IN  [dx |-> FCos(ct), dy |-> FSin(ct), dt |-> FDiv(M, EI)]

\* The RK4 sum with the weights of the two midpoint slopes left out.
RK4Weighted_Unweighted(ds, u1, u2, u3, u4) ==
  FMul(FDiv(ds, Num(6, 1)), FAdd(FAdd(FAdd(u1, u2), u3), u4))

\* x += (ds / 6) * (k1.dx + 2 * k2.dx + 2 * k3.dx + k4.dx), likewise y and theta
RK4Weighted(ds, u1, u2, u3, u4) ==
  FMul(FDiv(ds, Num(6, 1)),
       FAdd(FAdd(FAdd(u1, FMul(Num(2, 1), u2)), FMul(Num(2, 1), u3)), u4))

RK4Combine(ds, s, k1, k2, k3, k4) ==
  [x |-> FAdd(s.x, RK4Weighted(ds, k1.dx, k2.dx, k3.dx, k4.dx)),
   y |-> FAdd(s.y, RK4Weighted(ds, k1.dy, k2.dy, k3.dy, k4.dy)),
   theta |-> FAdd(s.theta, RK4Weighted(ds, k1.dt, k2.dt, k3.dt, k4.dt))]

\* k * ds / 2
half(k, ds) == FDiv(FMul(k, ds), Num(2, 1))

\* getDerivatives(x + ux, y + uy, theta + ut)
RK4Stage(p, EI, a, b, s, ux, uy, ut) ==
  getDerivatives(p, EI, a, b, FAdd(s.x, ux), FAdd(s.y, uy), FAdd(s.theta, ut))

RK4From3(p, EI, a, b, ds, s, k1, k2, k3) ==
  RK4Combine(ds, s, k1, k2, k3,
             RK4Stage(p, EI, a, b, s, FMul(k3.dx, ds), FMul(k3.dy, ds), FMul(k3.dt, ds)))

RK4From2(p, EI, a, b, ds, s, k1, k2) ==
  RK4From3(p, EI, a, b, ds, s, k1, k2,
           RK4Stage(p, EI, a, b, s, half(k2.dx, ds), half(k2.dy, ds), half(k2.dt, ds)))

RK4From1(p, EI, a, b, ds, s, k1) ==
  RK4From2(p, EI, a, b, ds, s, k1,
           RK4Stage(p, EI, a, b, s, half(k1.dx, ds), half(k1.dy, ds), half(k1.dt, ds)))

\* The body of the inner loop: one RK4 step from s = [x, y, theta].
RK4Step(p, EI, a, b, ds, s) ==
  RK4From1(p, EI, a, b, ds, s, getDerivatives(p, EI, a, b, s.x, s.y, s.theta))

\* for (let i = 0; i < steps; i++)
InnerContinues(f) == f.i < steps

\* The exit test satisfied by either residual component alone.
Converged_Either(errorX, errorY) ==
  FLtLit(FAbs(errorX), 1, 1000000) \/ FLtLit(FAbs(errorY), 1, 1000000)

\* if (Math.abs(errorX) < 1e-6 && Math.abs(errorY) < 1e-6) break
Converged(errorX, errorY) ==
  FLtLit(FAbs(errorX), 1, 1000000) /\ FLtLit(FAbs(errorY), 1, 1000000)

\* for (let iter = 0; iter < 15; iter++), unless left by break
ShootingContinues(f) == ~f.broke /\ f.iter < MaxPasses

\* The head of an outer pass: points = [{x: 0, y: 0}]; x = y = theta = 0.
PassStart(f) ==
  [f EXCEPT !.points = <<Point(0, 0)>>, !.x = 0, !.y = 0, !.theta = 0, !.i = 0,
            !.inner = TRUE]

\* One iteration of the inner loop on the frame f.
\* points.push({ x, y })
PushPoint(f, s) ==
  [f EXCEPT !.x = s.x, !.y = s.y, !.theta = s.theta,
            !.points = Append(@, Point(s.x, s.y)), !.i = @ + 1]

RK4Advance(p, f) ==
  PushPoint(f, RK4Step(p, EIof(p), f.a, f.b, f.ds,
                       [x |-> f.x, y |-> f.y, theta |-> f.theta]))

\* The tip angle taken from the pass before the last one.
PassFinish_StaleAngle(f) ==
  LET last == f.points[Len(f.points)]
      errorX == FSub(last.x, f.a)
      errorY == FSub(last.y, f.b)
  IN  IF Converged(errorX, errorY)
      THEN [f EXCEPT !.broke = TRUE, !.inner = FALSE]
      ELSE [f EXCEPT !.finalTheta = f.theta,
                     !.a = FAdd(f.a, FMul(errorX, Num(1, 2))),
                     !.b = FAdd(f.b, FMul(errorY, Num(1, 2))),
                     !.iter = f.iter + 1, !.inner = FALSE]

\* The tail of an outer pass, after the inner loop.
PassFinish(f) ==
  LET last == f.points[Len(f.points)]
      errorX == FSub(last.x, f.a)
      errorY == FSub(last.y, f.b)
  IN  IF Converged(errorX, errorY)
      THEN [f EXCEPT !.finalTheta = f.theta, !.broke = TRUE, !.inner = FALSE]
      ELSE [f EXCEPT !.finalTheta = f.theta,
                     !.a = FAdd(f.a, FMul(errorX, Num(1, 2))),
                     !.b = FAdd(f.b, FMul(errorY, Num(1, 2))),
                     !.iter = f.iter + 1, !.inner = FALSE]

\* A solver that reports an unconverged shooting loop as the empty result.
NonlinearResult_OnlyConverged(p, f) ==
  IF f.broke
  THEN [points |-> f.points, tipX |-> f.x, tipY |-> f.y, tipAngle |-> f.finalTheta,
        maxStress |-> 0, label |-> "Nonlinear", color |-> "#ef4444"]
  ELSE EmptyResult

\* The returned value with the stress taken without the fibre distance c.
NonlinearResult_NoFibreDistance(p, f) ==
  [points |-> f.points, tipX |-> f.x, tipY |-> f.y, tipAngle |-> f.finalTheta,
   maxStress |-> FAbs(FDiv(FAdd(FAdd(FMul(p.P, f.a), FMul(p.nP, f.b)), p.M0), p.I)),
   label |-> "Nonlinear", color |-> "#ef4444"]

\* The value returned after the loop.
NonlinearResult(p, f) ==
  LET tip == f.points[Len(f.points)]
  IN  [points |-> f.points, tipX |-> tip.x, tipY |-> tip.y, tipAngle |-> f.finalTheta,
       maxStress |->
         FAbs(FDiv(FMul(FAdd(FAdd(FMul(p.P, f.a), FMul(p.nP, f.b)), p.M0), p.c), p.I)),
       label |-> "Nonlinear", color |-> "#ef4444"]

CallNonlinear ==
  /\ pc = "idle"
  /\ model' = NONLINEAR
  /\ work' = NoWork
  /\ IF Degenerate(EIof(params))
     THEN /\ pc' = "done"
          /\ result' = EmptyResult
          /\ frame' = NoFrame
     ELSE /\ pc' = "nonlinear"
          /\ result' = NoResult
          /\ frame' = [a |-> InitialGuess(params).a, b |-> InitialGuess(params).b,
                       points |-> <<>>, finalTheta |-> 0,
                       ds |-> FDiv(params.L, Num(steps, 1)), iter |-> 0, broke |-> FALSE,
                       x |-> 0, y |-> 0, theta |-> 0, i |-> 0, inner |-> FALSE]
  /\ UNCHANGED <<app, params, calls, first>>

PassBegin ==
  /\ pc = "nonlinear"
  /\ ~frame.inner
  /\ ShootingContinues(frame)
  /\ frame' = PassStart(frame)
  /\ work' = [work EXCEPT !.passes = @ + 1, !.a = frame.a, !.b = frame.b]
  /\ UNCHANGED <<app, params, pc, model, result, calls, first>>

RK4Iteration ==
  /\ pc = "nonlinear"
  /\ frame.inner
  /\ InnerContinues(frame)
  /\ frame' = RK4Advance(params, frame)
  /\ work' = [work EXCEPT !.rk4 = @ + 1]
  /\ UNCHANGED <<app, params, pc, model, result, calls, first>>

PassEnd ==
  /\ pc = "nonlinear"
  /\ frame.inner
  /\ ~InnerContinues(frame)
  /\ frame' = PassFinish(frame)
  /\ UNCHANGED <<app, params, pc, model, work, result, calls, first>>

NonlinearReturn ==
  /\ pc = "nonlinear"
  /\ ~frame.inner
  /\ ~ShootingContinues(frame)
  /\ result' = NonlinearResult(params, frame)
  /\ pc' = "done"
  /\ UNCHANGED <<app, params, model, frame, work, calls, first>>

\* ---------------------------------------------------- solveLinearBeam

LinearSteps == 50

\* The station formula with the sign of x in (3L - x) reversed.
LinearStation_Mirrored(p, i) ==
  LET EI == EIof(p)
      x == FMul(FDiv(Num(i, 1), Num(LinearSteps, 1)), p.L)
      x2 == FMul(x, x)
      y == FAdd(FMul(FDiv(FMul(p.P, x2), FMul(Num(6, 1), EI)),
                     FAdd(FMul(Num(3, 1), p.L), x)),
                FDiv(FMul(p.M0, x2), FMul(Num(2, 1), EI)))
  IN  Point(x, y)

\* The body of the station loop: the point pushed for index i.
LinearStation(p, i) ==
  LET EI == EIof(p)
      x == FMul(FDiv(Num(i, 1), Num(LinearSteps, 1)), p.L)
      x2 == FMul(x, x)
      y == FAdd(FMul(FDiv(FMul(p.P, x2), FMul(Num(6, 1), EI)),
                     FSub(FMul(Num(3, 1), p.L), x)),
                FDiv(FMul(p.M0, x2), FMul(Num(2, 1), EI)))
  IN  Point(x, y)

\* The station loop stopping before the tip.
StationsContinue_Exclusive(f) == f.i < LinearSteps

\* for (let i = 0; i <= steps; i++)
StationsContinue(f) == f.i <= LinearSteps

LinearResult(p, f) ==
  LET EI == EIof(p)
      tip == f.points[Len(f.points)]
  IN  [points |-> f.points, tipX |-> p.L, tipY |-> tip.y,
       tipAngle |-> FAdd(FDiv(FMul(FMul(p.P, p.L), p.L), FMul(Num(2, 1), EI)),
                         FDiv(FMul(p.M0, p.L), EI)),
       maxStress |-> FAbs(FDiv(FMul(FAdd(FMul(p.P, p.L), p.M0), p.c), p.I)),
       label |-> "Linear", color |-> "#3b82f6"]

CallLinear ==
  /\ pc = "idle"
  /\ model' = LINEAR
  /\ work' = NoWork
  /\ pc' = "linear"
  /\ result' = NoResult
  /\ frame' = [points |-> <<>>, i |-> 0]
  /\ UNCHANGED <<app, params, calls, first>>

LinearStep ==
  /\ pc = "linear"
  /\ StationsContinue(frame)
  /\ frame' = [frame EXCEPT !.points = Append(@, LinearStation(params, frame.i)),
                            !.i = @ + 1]
  /\ work' = [work EXCEPT !.stations = @ + 1]
  /\ UNCHANGED <<app, params, pc, model, result, calls, first>>

LinearReturn ==
  /\ pc = "linear"
  /\ ~StationsContinue(frame)
  /\ result' = LinearResult(params, frame)
  /\ pc' = "done"
  /\ UNCHANGED <<app, params, model, frame, work, calls, first>>

\* --------------------------------------------------------- solvePRB1R

MaxNewton == 30

\* The ratio taken without the test for P = 0.
LoadRatio_Unguarded(p) == FDiv(p.nP, p.P)

\* let n = P !== 0 ? nP / P : 0
LoadRatio(p) == IF p.P # 0 THEN FDiv(p.nP, p.P) ELSE 0

\* The fitted gamma used as it comes, without the clamp.
ClampGamma_Unclamped(g) == g

\* Math.max(0.7, Math.min(0.95, gamma))
ClampGamma(g) == FMax(Num(7, 10), FMin(Num(95, 100), g))

\* The constants chosen by the load-case selector (defaults when it is none of
\* the three PRB-1R selectors).
PRB1RConstants(type, n) ==
  IF type = PRB_1R_CANTILEVER_P
  THEN [gamma |-> Num(8517, 10000), K_theta |-> Num(26706, 10000),
        c_theta |-> Num(12407, 10000), label |-> "PRB 1R (P)", color |-> "#22c55e"]
  ELSE IF type = PRB_1R_CANTILEVER_PNP
  THEN [gamma |-> ClampGamma(IF FGt(n, Num(-183, 100))
                             THEN FSub(Num(8521, 10000), FMul(Num(183, 10000), n))
                             ELSE FAdd(Num(9123, 10000), FMul(Num(146, 10000), n))),
        K_theta |-> Num(265, 100), c_theta |-> Num(124, 100),
        label |-> "PRB 1R (nP)", color |-> "#f59e0b"]
  ELSE IF type = PRB_1R_MOMENT
  THEN [gamma |-> Num(7346, 10000), K_theta |-> Num(15164, 10000),
        c_theta |-> Num(1, 1), label |-> "PRB 1R (M)", color |-> "#ec4899"]
  ELSE [gamma |-> Num(85, 100), K_theta |-> Num(265, 100), c_theta |-> Num(124, 100),
        label |-> "", color |-> ""]

\* The spring stiffness taken from the default gamma, before the selector's.
SpringStiffness_DefaultGamma(p, gamma, K_theta) ==
  FMul(FMul(Num(85, 100), K_theta), FDiv(EIof(p), p.L))

\* const K = gamma * K_theta * (EI / L)
SpringStiffness(p, gamma, K_theta) ==
  FMul(FMul(gamma, K_theta), FDiv(EIof(p), p.L))

\* for (let i = 0; i < 30; i++), unless left by break
NewtonContinues(f) == ~f.broke /\ f.i < MaxNewton

\* if (Math.abs(delta) < 1e-8) break
NewtonConverged(delta) == FLtLit(FAbs(delta), 1, 100000000)

\* Theta -= delta * 0.8, then the convergence test on delta
NewtonUpdate(f, delta, Theta) ==
  IF NewtonConverged(delta)
  THEN [f EXCEPT !.Theta = Theta, !.delta = delta, !.broke = TRUE]
  ELSE [f EXCEPT !.Theta = Theta, !.delta = delta, !.i = f.i + 1]

NewtonDelta(f, delta) == NewtonUpdate(f, delta, FSub(f.Theta, FMul(delta, Num(8, 10))))

\* The Newton quotient with sin and cos exchanged in the derivative.
NewtonResidual_SwappedTrig(p, f, cosT, sinT) ==
  NewtonDelta(f,
    FDiv(FSub(FMul(f.K, f.Theta),
              FAdd(FAdd(FMul(FMul(FMul(p.P, f.gamma), p.L), cosT),
                        FMul(FMul(FMul(p.nP, f.gamma), p.L), sinT)), p.M0)),
         FSub(FAdd(f.K, FMul(FMul(FMul(p.P, f.gamma), p.L), cosT)),
              FMul(FMul(FMul(p.nP, f.gamma), p.L), sinT))))

\* f = K*Theta - (P*gamma*L*cos(Theta) + nP*gamma*L*sin(Theta) + M0)
\* df = K + P*gamma*L*sin(Theta) - nP*gamma*L*cos(Theta);  delta = f / df
NewtonResidual(p, f, cosT, sinT) ==
  NewtonDelta(f,
    FDiv(FSub(FMul(f.K, f.Theta),
              FAdd(FAdd(FMul(FMul(FMul(p.P, f.gamma), p.L), cosT),
                        FMul(FMul(FMul(p.nP, f.gamma), p.L), sinT)), p.M0)),
         FSub(FAdd(f.K, FMul(FMul(FMul(p.P, f.gamma), p.L), sinT)),
              FMul(FMul(FMul(p.nP, f.gamma), p.L), cosT))))

\* One iteration of the Newton loop on the frame f.
NewtonStep(p, f) == NewtonResidual(p, f, FCos(f.Theta), FSin(f.Theta))

\* The returned object reporting the raw link rotation as the tip angle.
PRB1RTip_RawAngle(p, f, a, b) ==
  [points |-> <<Point(0, 0), Point(FMul(p.L, FSub(Num(1, 1), f.gamma)), 0),
                Point(a, b)>>,
   tipX |-> a, tipY |-> b, tipAngle |-> f.Theta, maxStress |-> 0,
   label |-> f.label, color |-> f.color,
   prbParams |-> [gamma |-> f.gamma, k_theta |-> f.K_theta, c_theta |-> f.c_theta,
                  stiffness_physicals |-> <<f.K>>]]

\* The returned object, with tip (a, b).
PRB1RTip(p, f, a, b) ==
  [points |-> <<Point(0, 0), Point(FMul(p.L, FSub(Num(1, 1), f.gamma)), 0),
                Point(a, b)>>,
   tipX |-> a, tipY |-> b, tipAngle |-> FMul(f.c_theta, f.Theta), maxStress |-> 0,
   label |-> f.label, color |-> f.color,
   prbParams |-> [gamma |-> f.gamma, k_theta |-> f.K_theta, c_theta |-> f.c_theta,
                  stiffness_physicals |-> <<f.K>>]]

\* const a = L*(1 - gamma) + gamma*L*cos(Theta);  const b = gamma*L*sin(Theta)
PRB1RResult(p, f) ==
  PRB1RTip(p, f,
           FAdd(FMul(p.L, FSub(Num(1, 1), f.gamma)),
                FMul(FMul(f.gamma, p.L), FCos(f.Theta))),
           FMul(FMul(f.gamma, p.L), FSin(f.Theta)))

CallPRB1R(type) ==
  /\ pc = "idle"
  /\ model' = type
  /\ work' = NoWork
  /\ pc' = "prb1r"
  /\ result' = NoResult
  /\ LET n == LoadRatio(params)
         k == PRB1RConstants(type, n)
     IN  frame' = [gamma |-> k.gamma, K_theta |-> k.K_theta, c_theta |-> k.c_theta,
                   n |-> n, label |-> k.label, color |-> k.color,
                   K |-> SpringStiffness(params, k.gamma, k.K_theta),
                   Theta |-> 0, delta |-> 0, i |-> 0, broke |-> FALSE]
  /\ UNCHANGED <<app, params, calls, first>>

NewtonIteration ==
  /\ pc = "prb1r"
  /\ NewtonContinues(frame)
  /\ frame' = NewtonStep(params, frame)
  /\ work' = [work EXCEPT !.newton = @ + 1]
  /\ UNCHANGED <<app, params, pc, model, result, calls, first>>

PRB1RReturn ==
  /\ pc = "prb1r"
  /\ ~NewtonContinues(frame)
  /\ result' = PRB1RResult(params, frame)
  /\ pc' = "done"
  /\ UNCHANGED <<app, params, model, frame, work, calls, first>>

\* ---------------------------------- solvePRB1R, Newton loop at 1e-9

\* The Newton loop again on a grid of 1/Fine (about 1e-9), fine enough to tell
\* values on either side of the 1e-8 of the convergence test apart.  It covers
\* the moment selector under a pure moment: with P = nP = 0 the terms
\* P*gamma*L*cos(Theta) and nP*gamma*L*sin(Theta) are 0 and f' is K.
Fine == Scale * 32768

Refine(v) == v * (Fine \div Scale)
Coarsen(v) ==
  Sgn(v) * ((IAbs(v) + (Fine \div Scale) \div 2) \div (Fine \div Scale))

\* Quotient and remainder <<q, r>> of a*m by d (a, m >= 0, d > 0) without
\* leaving 32 bits: one binary digit of m at a time from the top one (weight w),
\* doubling <<q, r>> and adding a where the digit is 1.
Doubled(r, d) == IF r >= d - r THEN r - (d - r) ELSE 2 * r
DoubledCarry(r, d) == IF r >= d - r THEN 1 ELSE 0
Added(r, ar, d) == IF r >= d - ar THEN r - (d - ar) ELSE r + ar
AddedCarry(r, ar, d) == IF r >= d - ar THEN 1 ELSE 0

RECURSIVE MulDivFrom(_, _, _, _, _, _)
MulDivFrom(q, r, w, a, m, d) ==
  IF w = 0 \/ q < 0 \/ r < 0 THEN <<q, r>>
  ELSE IF (m \div w) % 2 = 1
  THEN MulDivFrom(2 * q + DoubledCarry(r, d) + a \div d
                    + AddedCarry(Doubled(r, d), a % d, d),
                  Added(Doubled(r, d), a % d, d), w \div 2, a, m, d)
  ELSE MulDivFrom(2 * q + DoubledCarry(r, d), Doubled(r, d), w \div 2, a, m, d)

MulDiv(a, m, d) == MulDivFrom(0, 0, 1073741824, a, m, d)

MulDivRound(h, d) == IF h[2] >= d - h[2] THEN h[1] + 1 ELSE h[1]

\* a*b and a/b (b # 0) of finite numbers on the fine grid.
FineMul(a, b) ==
  Sgn(a) * Sgn(b) * MulDivRound(MulDiv(IAbs(a), IAbs(b), Fine), Fine)

FineDiv(a, b) ==
  Sgn(a) * Sgn(b) * MulDivRound(MulDiv(IAbs(a), Fine, IAbs(b)), IAbs(b))

\* const K = gamma * K_theta * (EI / L)
FineStiffness(p, gamma, K_theta) ==
  FineMul(FineMul(Refine(gamma), Refine(K_theta)),
          FineDiv(FineMul(Refine(p.E), Refine(p.I)), Refine(p.L)))

\* The convergence test applied to the change of Theta, 0.8 * delta.
FineNewtonConverged_Damped(delta) ==
  IAbs(FineMul(delta, Refine(Num(8, 10)))) <= (Fine - 1) \div 100000000

\* if (Math.abs(delta) < 1e-8) break
FineNewtonConverged(delta) == IAbs(delta) <= (Fine - 1) \div 100000000

\* Theta -= delta * 0.8, then the convergence test on delta
FineNewtonUpdate(f, delta) ==
  IF FineNewtonConverged(delta)
  THEN [f EXCEPT !.Theta = f.Theta - FineMul(delta, Refine(Num(8, 10))),
                 !.delta = delta, !.broke = TRUE]
  ELSE [f EXCEPT !.Theta = f.Theta - FineMul(delta, Refine(Num(8, 10))),
                 !.delta = delta, !.i = f.i + 1]

\* f = K*Theta - (0 + 0 + M0);  df = K + 0 - 0;  delta = f / df
FineNewtonStep(p, f) ==
  FineNewtonUpdate(f, FineDiv(FineMul(f.Kf, f.Theta) - Refine(p.M0), f.Kf))

\* The geometry and the returned object, from the Theta the loop ended with.
FinePRB1RResult(p, f) == PRB1RResult(p, [f EXCEPT !.Theta = Coarsen(f.Theta)])

CallPRB1RFine ==
  /\ pc = "idle"
  /\ params.P = 0 /\ params.nP = 0 /\ EIof(params) # 0
  /\ model' = PRB_1R_MOMENT
  /\ work' = NoWork
  /\ pc' = "prb1r_fine"
  /\ result' = NoResult
  /\ LET n == LoadRatio(params)
         k == PRB1RConstants(PRB_1R_MOMENT, n)
     IN  frame' = [gamma |-> k.gamma, K_theta |-> k.K_theta, c_theta |-> k.c_theta,
                   n |-> n, label |-> k.label, color |-> k.color,
                   K |-> SpringStiffness(params, k.gamma, k.K_theta),
                   Kf |-> FineStiffness(params, k.gamma, k.K_theta),
                   Theta |-> 0, delta |-> 0, i |-> 0, broke |-> FALSE]
  /\ UNCHANGED <<app, params, calls, first>>

NewtonIterationFine ==
  /\ pc = "prb1r_fine"
  /\ NewtonContinues(frame)
  /\ frame' = FineNewtonStep(params, frame)
  /\ work' = [work EXCEPT !.newton = @ + 1]
  /\ UNCHANGED <<app, params, pc, model, result, calls, first>>

PRB1RReturnFine ==
  /\ pc = "prb1r_fine"
  /\ ~NewtonContinues(frame)
  /\ result' = FinePRB1RResult(params, frame)
  /\ pc' = "done"
  /\ UNCHANGED <<app, params, model, frame, work, calls, first>>

\* --------------------------------------------------------- solvePRB3R

RelaxIterations == 150

\* A second link written shorter than the table gives it.
g1_Short == Num(30, 100)

\* Su Table A.5.3 parameters
g0 == Num(1, 10)
g1 == Num(35, 100)
g2 == Num(40, 100)
g3 == Num(15, 100)
K_c1 == Num(351, 100)
K_c2 == Num(299, 100)
K_c3 == Num(258, 100)

\* const K1 = K_c1 * (EI / L), K2 = ..., K3 = ...
JointStiffness(p, K_c) == FMul(K_c, FDiv(EIof(p), p.L))

\* The relaxation loop running one iteration too many.
RelaxContinues_OffByOne(f) == f.iter <= RelaxIterations

\* for (let iter = 0; iter < 150; iter++)
RelaxContinues(f) == f.iter < RelaxIterations

\* T1 += (M1/K1 - T1) * 0.1, likewise T2 and T3
RelaxUpdate(f, M1, M2, M3) ==
  [f EXCEPT
     !.T1 = FAdd(f.T1, FMul(FSub(FDiv(M1, f.K1), f.T1), Num(1, 10))),
     !.T2 = FAdd(f.T2, FMul(FSub(FDiv(M2, f.K2), f.T2), Num(1, 10))),
     !.T3 = FAdd(f.T3, FMul(FSub(FDiv(M3, f.K3), f.T3), Num(1, 10))),
     !.iter = f.iter + 1]

\* M1 = P*(a - g0*L) + nP*(b - 0) + M0;  M2 = P*(a - x1) + nP*(b - y1) + M0;
\* M3 = P*(a - x2) + nP*(b - y2) + M0
RelaxMoments(p, f, a, b, x1, y1, x2, y2) ==
  RelaxUpdate(f,
    FAdd(FAdd(FMul(p.P, FSub(a, FMul(g0, p.L))), FMul(p.nP, FSub(b, 0))), p.M0),
    FAdd(FAdd(FMul(p.P, FSub(a, x1)), FMul(p.nP, FSub(b, y1))), p.M0),
    FAdd(FAdd(FMul(p.P, FSub(a, x2)), FMul(p.nP, FSub(b, y2))), p.M0))

\* x2 = x1 + g2*L*c12;  y2 = y1 + g2*L*s12
RelaxJoint2(p, f, a, b, x1, y1, c12, s12) ==
  RelaxMoments(p, f, a, b, x1, y1,
               FAdd(x1, FMul(FMul(g2, p.L), c12)), FAdd(y1, FMul(FMul(g2, p.L), s12)))

\* a = L*(g0 + g1*c1 + g2*c12 + g3*c123);  b = L*(g1*s1 + g2*s12 + g3*s123)
\* x1 = g0*L + g1*L*c1;  y1 = g1*L*s1
RelaxKinematics(p, f, c1, s1, c12, s12, c123, s123) ==
  RelaxJoint2(p, f,
    FMul(p.L, FAdd(FAdd(FAdd(g0, FMul(g1, c1)), FMul(g2, c12)), FMul(g3, c123))),
    FMul(p.L, FAdd(FAdd(FMul(g1, s1), FMul(g2, s12)), FMul(g3, s123))),
    FAdd(FMul(g0, p.L), FMul(FMul(g1, p.L), c1)),
    FMul(FMul(g1, p.L), s1),
    c12, s12)

\* One iteration that updates the rotations one after the other, each update
\* seeing the rotations already updated in the same iteration.
RelaxOnce(p, f) ==
  RelaxKinematics(p, f, FCos(f.T1), FSin(f.T1),
                  FCos(FAdd(f.T1, f.T2)), FSin(FAdd(f.T1, f.T2)),
                  FCos(FAdd(FAdd(f.T1, f.T2), f.T3)), FSin(FAdd(FAdd(f.T1, f.T2), f.T3)))

RelaxSecond(p, f, T1) == [f EXCEPT !.T1 = T1, !.T2 = RelaxOnce(p, [f EXCEPT !.T1 = T1]).T2]

RelaxThird(p, f) == [f EXCEPT !.T3 = RelaxOnce(p, f).T3, !.iter = f.iter + 1]

RelaxStep_Sequential(p, f) == RelaxThird(p, RelaxSecond(p, f, RelaxOnce(p, f).T1))

\* One iteration of the relaxation loop on the frame f.
RelaxStep(p, f) ==
  RelaxKinematics(p, f, FCos(f.T1), FSin(f.T1),
                  FCos(FAdd(f.T1, f.T2)), FSin(FAdd(f.T1, f.T2)),
                  FCos(FAdd(FAdd(f.T1, f.T2), f.T3)), FSin(FAdd(FAdd(f.T1, f.T2), f.T3)))

\* The returned object with one physical stiffness missing.
PRB3RChain_TwoStiffnesses(f, p1, p2, p3, p4) ==
  [points |-> <<Point(0, 0), p1, p2, p3, p4>>,
   tipX |-> p4.x, tipY |-> p4.y, tipAngle |-> FAdd(FAdd(f.T1, f.T2), f.T3),
   maxStress |-> 0, label |-> "PRB 3R", color |-> "#8b5cf6",
   prbParams |-> [links |-> <<g0, g1, g2, g3>>,
                  stiffness_coeffs |-> <<K_c1, K_c2, K_c3>>,
                  stiffness_physicals |-> <<f.K1, f.K2>>]]

\* The returned object, with joints p1..p3 and tip p4.
PRB3RChain(f, p1, p2, p3, p4) ==
  [points |-> <<Point(0, 0), p1, p2, p3, p4>>,
   tipX |-> p4.x, tipY |-> p4.y, tipAngle |-> FAdd(FAdd(f.T1, f.T2), f.T3),
   maxStress |-> 0, label |-> "PRB 3R", color |-> "#8b5cf6",
   prbParams |-> [links |-> <<g0, g1, g2, g3>>,
                  stiffness_coeffs |-> <<K_c1, K_c2, K_c3>>,
                  stiffness_physicals |-> <<f.K1, f.K2, f.K3>>]]

\* The last link laid at its own rotation T3 instead of the cumulative angle.
PRB3RFrom3_RelativeAngle(p, f, p1, p2, p3) ==
  PRB3RChain(f, p1, p2, p3,
             Point(FAdd(p3.x, FMul(FMul(g3, p.L), FCos(f.T3))),
                   FAdd(p3.y, FMul(FMul(g3, p.L), FSin(f.T3)))))

\* p4 = p3 + g3*L*(cos(T1+T2+T3), sin(T1+T2+T3))
PRB3RFrom3(p, f, p1, p2, p3) ==
  PRB3RChain(f, p1, p2, p3,
             Point(FAdd(p3.x, FMul(FMul(g3, p.L), FCos(FAdd(FAdd(f.T1, f.T2), f.T3)))),
                   FAdd(p3.y, FMul(FMul(g3, p.L), FSin(FAdd(FAdd(f.T1, f.T2), f.T3))))))

\* p3 = p2 + g2*L*(cos(T1+T2), sin(T1+T2))
PRB3RFrom2(p, f, p1, p2) ==
  PRB3RFrom3(p, f, p1, p2,
             Point(FAdd(p2.x, FMul(FMul(g2, p.L), FCos(FAdd(f.T1, f.T2)))),
                   FAdd(p2.y, FMul(FMul(g2, p.L), FSin(FAdd(f.T1, f.T2))))))

\* p2 = p1 + g1*L*(cos(T1), sin(T1))
PRB3RFrom1(p, f, p1) ==
  PRB3RFrom2(p, f, p1,
             Point(FAdd(p1.x, FMul(FMul(g1, p.L), FCos(f.T1))),
                   FAdd(p1.y, FMul(FMul(g1, p.L), FSin(f.T1)))))

\* p1 = (g0*L, 0)
PRB3RResult(p, f) == PRB3RFrom1(p, f, Point(FMul(g0, p.L), 0))

CallPRB3R ==
  /\ pc = "idle"
  /\ model' = PRB_3R_SU
  /\ work' = NoWork
  /\ pc' = "prb3r"
  /\ result' = NoResult
  /\ frame' = [K1 |-> JointStiffness(params, K_c1), K2 |-> JointStiffness(params, K_c2),
               K3 |-> JointStiffness(params, K_c3), T1 |-> 0, T2 |-> 0, T3 |-> 0,
               iter |-> 0]
  /\ UNCHANGED <<app, params, calls, first>>

RelaxIteration ==
  /\ pc = "prb3r"
  /\ RelaxContinues(frame)
  /\ frame' = RelaxStep(params, frame)
  /\ work' = [work EXCEPT !.relax = @ + 1]
  /\ UNCHANGED <<app, params, pc, model, result, calls, first>>

PRB3RReturn ==
  /\ pc = "prb3r"
  /\ ~RelaxContinues(frame)
  /\ result' = PRB3RResult(params, frame)
  /\ pc' = "done"
  /\ UNCHANGED <<app, params, model, frame, work, calls, first>>

\* ------------------------------------------------------------- caller

\* The caller takes the returned value and drops the callee's frame.
Discard ==
  /\ pc = "done"
  /\ pc' = "idle"
  /\ model' = ""
  /\ frame' = NoFrame
  /\ work' = NoWork
  /\ result' = NoResult
  /\ UNCHANGED <<app, params, calls, first>>

\* The same, keeping what the first call was given and returned.
Record ==
  /\ pc = "done"
  /\ calls < MaxCalls
  /\ pc' = "idle"
  /\ model' = ""
  /\ frame' = NoFrame
  /\ work' = NoWork
  /\ result' = NoResult
  /\ calls' = calls + 1
  /\ first' = IF calls = 0
              THEN [model |-> model, params |-> params, result |-> result]
              ELSE first
  /\ UNCHANGED <<app, params>>

Solve ==
  \/ CallNonlinear \/ PassBegin \/ RK4Iteration \/ PassEnd \/ NonlinearReturn
  \/ CallLinear \/ LinearStep \/ LinearReturn
  \/ \E type \in PRB1RTypes : CallPRB1R(type)
  \/ NewtonIteration \/ PRB1RReturn
  \/ CallPRB3R \/ RelaxIteration \/ PRB3RReturn

\* useState of App: English units, a rectangular section of 1.25 in by 1/32 in
\* (the grid point below 1/32), diameter 0.5 in, and four models selected.
DefaultDimensions ==
  [width |-> Num(125, 100), height |-> Num(1, 32), diameter |-> Num(1, 2)]

DefaultModels == <<LINEAR, NONLINEAR, PRB_1R_CANTILEVER_PNP, PRB_3R_SU>>

InitApp ==
  /\ unitSystem = ENGLISH
  /\ sectionType = RECTANGULAR
  /\ dimensions = DefaultDimensions
  /\ selectedModels = DefaultModels
  /\ results = <<>>
  /\ events = 0

InitWith(S) ==
  /\ InitApp
  /\ params \in S
  /\ pc = "idle"
  /\ model = ""
  /\ frame = NoFrame
  /\ work = NoWork
  /\ result = NoResult
  /\ calls = 0
  /\ first = NoCall

Init == InitWith(Inputs)

Next == Solve \/ Discard

Spec == Init /\ [][Next]_vars

\* A caller that makes MaxCalls calls and keeps the first.
CallsInputs ==
  {BeamParams(2, 1, 1, 0, 0, 0), BeamParams(1, 0, 1, 1, 1, 0),
   BeamParams(2, 1, 1, 1, 1, 0)}

InitCalls == InitWith(CallsInputs)

NextCalls == (calls < MaxCalls /\ Solve) \/ Record

SpecCalls == InitCalls /\ [][NextCalls]_vars

\* A caller of solvePRB1R alone, with the Newton loop on either grid.
NewtonInputs ==
  {[BeamParams(1, 1, L, 0, 0, 0) EXCEPT !.M0 = Num(m, 40)] :
     L \in {1, 2}, m \in {-22, -11, 0, 11, 22, 40}}
    \cup {BeamParams(2, 1, 1, 1, 0, 0), BeamParams(2, 1, 1, 1, 1, 0),
          BeamParams(2, 1, 1, -1, 2, 1), BeamParams(1, 0, 1, 1, 0, 0),
          BeamParams(1, 0, 1, 0, 1, 0)}

InitNewton == InitWith(NewtonInputs)

NextNewton ==
  \/ \E type \in PRB1RTypes : CallPRB1R(type)
  \/ NewtonIteration \/ PRB1RReturn
  \/ CallPRB1RFine \/ NewtonIterationFine \/ PRB1RReturnFine
  \/ Discard

SpecNewton == InitNewton /\ [][NextNewton]_vars

\* A caller that calls solveLinearBeam and then solveNonlinearBeam on one
\* BeamParams value, keeping the first result.
LinearCall == CallLinear \/ LinearStep \/ LinearReturn
NonlinearCall == CallNonlinear \/ PassBegin \/ RK4Iteration \/ PassEnd \/ NonlinearReturn

\* Stiff beams under small loads (deflections the grid resolves), without and
\* with an axial load.
PairInputs ==
  {BeamParams(100, 1, 1, 1, 0, 0), BeamParams(100, 1, 1, -1, 0, 0),
   BeamParams(150, 1, 2, 1, 0, 0), BeamParams(60, 1, 1, 0, 0, 1),
   BeamParams(150, 1, 1, 0, 0, -1), BeamParams(150, 1, 2, 1, 0, 1),
   BeamParams(80, 1, 1, 1, 80, 0), BeamParams(80, 1, 1, 1, -80, 0),
   BeamParams(2, 1, 1, 1, 0, 0)}

InitPair == InitWith(PairInputs)

NextPair == (calls = 0 /\ LinearCall) \/ (calls = 1 /\ NonlinearCall) \/ Record

SpecPair == InitPair /\ [][NextPair]_vars

\* --------------------------------------------------------- properties

Returned == pc = "done"
Stiffness == EIof(params)
ZeroLoad(p) == p.P = 0 /\ p.nP = 0 /\ p.M0 = 0

AllOnAxis(points) == \A i \in 1..Len(points) : points[i].y = 0

Straight(p, r) ==
  r.tipX = p.L /\ r.tipY = 0 /\ r.tipAngle = 0 /\ AllOnAxis(r.points)

HasNonFinite(r) ==
  \/ ~IsFinite(r.tipX) \/ ~IsFinite(r.tipY) \/ ~IsFinite(r.tipAngle)
  \/ \E i \in 1..Len(r.points) : ~IsFinite(r.points[i].x) \/ ~IsFinite(r.points[i].y)

\* C1 as stated: with P = nP = M0 = 0 every solver returns tipX = L, tipY = 0,
\* tipAngle = 0 and a polyline on the x-axis, for every E, I and L, I = 0 included.
C1_StraightForEveryStiffness ==
  (Returned /\ ZeroLoad(params)) => Straight(params, result)

\* C1 amended: with P = nP = M0 = 0 and E*I # 0 every solver returns tipX = L,
\* tipY = 0, tipAngle = 0 and a non-empty polyline whose points all have y = 0.
C1_StraightWhenStiff ==
  (Returned /\ ZeroLoad(params) /\ Stiffness # 0)
    => Straight(params, result) /\ Len(result.points) > 0

C1_Witness ==
  /\ Returned /\ model = NONLINEAR /\ ZeroLoad(params) /\ Stiffness # 0
  /\ params.L = Num(2, 1) /\ result.tipX = Num(2, 1) /\ Len(result.points) = 101

\* C2: when E*I = 0, solveNonlinearBeam returns at once, with no outer pass and
\* no integration step run, a result with zero points, zero tip state, zero
\* maxStress and its usual label and color, whatever the loads.
C2_DegenerateReturnsEmpty ==
  (model = NONLINEAR /\ Stiffness = 0)
    => /\ pc = "done"
       /\ work.passes = 0 /\ work.rk4 = 0
       /\ Len(result.points) = 0
       /\ result.tipX = 0 /\ result.tipY = 0 /\ result.tipAngle = 0
       /\ result.maxStress = 0
       /\ result.label = "Nonlinear" /\ result.color = "#ef4444"

C2_Witness ==
  /\ Returned /\ model = NONLINEAR /\ Stiffness = 0
  /\ params.P # 0 /\ params.nP # 0 /\ params.M0 # 0
  /\ result.points = <<>>

\* C3 as stated: when E*I = 0, solveLinearBeam, solvePRB1R and solvePRB3R each
\* return a result holding a non-finite value, for every combination of loads.
C3_NonFiniteForEveryLoad ==
  (Returned /\ Stiffness = 0 /\ model # NONLINEAR) => HasNonFinite(result)

\* C3 amended: when E*I = 0, solveLinearBeam and solvePRB3R return a result
\* holding a non-finite value for every combination of loads, and solvePRB1R
\* does so whenever nP = 0.
C3_NonFiniteUnlessAxialLoad ==
  (/\ Returned /\ Stiffness = 0
   /\ \/ model \in {LINEAR, PRB_3R_SU}
      \/ model \in PRB1RTypes /\ params.nP = 0)
    => HasNonFinite(result)

C3_Witness ==
  /\ Returned /\ model \in PRB1RTypes /\ Stiffness = 0
  /\ params.nP = 0 /\ params.P # 0
  /\ IsNaN(result.tipX)

BeamResultFields ==
  {"points", "tipX", "tipY", "tipAngle", "maxStress", "label", "color"}

\* The shooting loop used all its passes without meeting the exit test.
ShootingExhausted == model = NONLINEAR /\ Stiffness # 0 /\ ~frame.broke

\* The Newton loop used all its iterations without meeting the exit test.
NewtonExhausted == model \in PRB1RTypes /\ ~frame.broke

Running == pc \notin {"idle", "done"}

\* Steps the running call can still take, from its loop variables alone.
Remaining ==
  IF pc = "nonlinear"
  THEN 1 + (IF frame.inner THEN 102 * (14 - frame.iter) + 101 - frame.i
            ELSE IF frame.broke THEN 0 ELSE 102 * (15 - frame.iter))
  ELSE IF pc = "linear" THEN 1 + 51 - frame.i
  ELSE IF pc = "prb1r" THEN 1 + (IF frame.broke THEN 0 ELSE 30 - frame.i)
  ELSE IF pc = "prb3r" THEN 1 + 150 - frame.iter
  ELSE 0

IterationBounds ==
  /\ work.passes <= 15 /\ work.newton <= 30 /\ work.relax <= 150 /\ work.stations <= 51
  /\ pc = "nonlinear" =>
       work.rk4 = IF frame.inner THEN 100 * (work.passes - 1) + frame.i
                  ELSE 100 * work.passes
  /\ (Returned /\ model = NONLINEAR) => work.rk4 = 100 * work.passes
  /\ (Returned /\ model = PRB_3R_SU) => work.relax = 150
  /\ (Returned /\ model = LINEAR) => work.stations = 51
  /\ Running => Remaining >= 1

\* C4: every call returns (each step of a running call lowers a bound on the
\* steps left that depends on no input value), after at most 15
\* outer passes of exactly 100 RK4 steps each (solveNonlinearBeam), at most 30
\* Newton iterations (solvePRB1R), exactly 150 relaxation iterations
\* (solvePRB3R), exactly 51 stations (solveLinearBeam).
C4_FixedIterationBounds ==
  []IterationBounds /\ [][Running => Remaining' < Remaining]_vars

C4_Witness ==
  /\ Returned /\ ShootingExhausted
  /\ work.passes = 15 /\ work.rk4 = 1500

\* C5: a solver whose loop ran out of iterations without converging still
\* returns an ordinary result built from the last iterate: the same fields as a
\* converged result, the full polyline, the last tip and angle, and no flag.
C5_NonConvergenceSilent ==
  /\ (Returned /\ ShootingExhausted)
       => /\ DOMAIN result = BeamResultFields
          /\ work.passes = 15
          /\ result.points = frame.points /\ Len(result.points) = 101
          /\ result.tipX = frame.x /\ result.tipY = frame.y
          /\ result.tipAngle = frame.theta
  /\ (Returned /\ NewtonExhausted)
       => /\ DOMAIN result = BeamResultFields \cup {"prbParams"}
          /\ DOMAIN result.prbParams =
               {"gamma", "k_theta", "c_theta", "stiffness_physicals"}
          /\ work.newton = 30
          /\ Len(result.points) = 3
          /\ result.tipX = result.points[3].x /\ result.tipY = result.points[3].y
          /\ result.tipAngle = FMul(frame.c_theta, frame.Theta)

C5_Witness ==
  /\ Returned /\ ShootingExhausted
  /\ IsFinite(result.tipX) /\ result.tipY # 0
  /\ frame.a # result.tipX

C7_PointCounts ==
  /\ (Returned /\ model = LINEAR) => Len(result.points) = 51
  /\ (Returned /\ model \in PRB1RTypes) => Len(result.points) = 3
  /\ (Returned /\ model = PRB_3R_SU) => Len(result.points) = 5
  /\ (Returned /\ model = NONLINEAR)
       => /\ Len(result.points) <= 101
          /\ Stiffness # 0 => Len(result.points) = 101

C7_Witness ==
  /\ Returned /\ model = NONLINEAR /\ Stiffness # 0 /\ ~ZeroLoad(params)
  /\ frame.broke /\ work.passes < 15 /\ Len(result.points) = 101

\* Whole-number inputs E, I, L, P, M0 of a BeamParams value.
Whole(v) == v \div Scale

\* v, in grid units, is n/d to within tol grid units (d > 0).
Near(v, n, d, tol) == IAbs(d * v - n) <= tol * d

\* 25*EI times, in grid units, y(x_i) = P*x_i^2*(3L - x_i)/(6EI) + M0*x_i^2/(2EI)
\* at x_i = i*L/50.
StationDeflection(p, i) ==
  Whole(p.P) * Whole(p.L) * Whole(p.L) * Whole(p.L) * i * i * (150 - i)
    + 150 * Whole(p.M0) * Whole(p.L) * Whole(p.L) * i * i

\* EI times, in grid units, P*L^2/(2EI) + M0*L/EI.
TipSlope(p) ==
  (Scale \div 2) * Whole(p.P) * Whole(p.L) * Whole(p.L) + Scale * Whole(p.M0) * Whole(p.L)

\* C8: for E*I # 0 solveLinearBeam samples x_i = i*L/50, i = 0..50, with
\* y(x_i) = P*x_i^2*(3L - x_i)/(6EI) + M0*x_i^2/(2EI) (to the rounding of the
\* arithmetic), reports tipX = L exactly, tipY = y(L) = P*L^3/(3EI) + M0*L^2/(2EI)
\* and tipAngle = P*L^2/(2EI) + M0*L/EI, and nP changes nothing.
C8_LinearClosedForm ==
  (Returned /\ model = LINEAR /\ Stiffness # 0)
    => /\ Len(result.points) = 51
       /\ \A i \in 0..50 :
            /\ 50 * result.points[i + 1].x = i * params.L
            /\ Near(result.points[i + 1].y, StationDeflection(params, i),
                    25 * Whole(Stiffness), 2)
            /\ result.points[i + 1] = LinearStation([params EXCEPT !.nP = 0], i)
       /\ result.tipX = params.L
       /\ result.tipY = result.points[51].y
       /\ Near(result.tipY,
               (Scale \div 3) * Whole(params.P) * Whole(params.L) * Whole(params.L)
                   * Whole(params.L)
                 + (Scale \div 2) * Whole(params.M0) * Whole(params.L) * Whole(params.L),
               Whole(Stiffness), 2)
       /\ Near(result.tipAngle, TipSlope(params), Whole(Stiffness), 2)
       /\ result.tipAngle = LinearResult([params EXCEPT !.nP = 0], frame).tipAngle

C8_Witness ==
  /\ Returned /\ model = LINEAR /\ Stiffness # 0
  /\ params.P # 0 /\ params.nP # 0 /\ params.M0 # 0
  /\ result.tipX = params.L /\ result.tipY # 0 /\ result.tipAngle # 0

CombinedLoad == model = PRB_1R_CANTILEVER_PNP

\* C9: for the combined-load selector, whatever P and nP are (P = 0 included),
\* the gamma that solvePRB1R computes K and the geometry with, and reports in
\* prbParams.gamma, lies in [0.70, 0.95].
C9_GammaClamped ==
  CombinedLoad
    => /\ Num(70, 100) <= frame.gamma /\ frame.gamma <= Num(95, 100)
       /\ frame.K = FMul(FMul(frame.gamma, Num(265, 100)), FDiv(Stiffness, params.L))
       /\ Returned
            => /\ result.prbParams.gamma = frame.gamma
               /\ result.points[2].x = FMul(params.L, FSub(Num(1, 1), frame.gamma))

C9_Witness ==
  /\ Returned /\ CombinedLoad /\ params.P # 0 /\ Stiffness # 0
  /\ FGt(frame.n, Num(831, 100))
  /\ result.prbParams.gamma = Num(70, 100)

\* C10: when P = 0 solvePRB1R takes the load ratio n as 0, without dividing, and
\* with the combined-load selector the result has gamma = 0.8521 for every nP.
C10_ZeroForceRatio ==
  (model \in PRB1RTypes /\ params.P = 0)
    => /\ frame.n = 0
       /\ CombinedLoad
            => /\ frame.gamma = Num(8521, 10000)
               /\ Returned => result.prbParams.gamma = Num(8521, 10000)

C10_Witness ==
  /\ Returned /\ CombinedLoad /\ params.P = 0 /\ params.nP # 0
  /\ result.prbParams.gamma = Num(8521, 10000)

PrbFields1R == {"gamma", "k_theta", "c_theta", "stiffness_physicals"}
PrbFields3R == {"links", "stiffness_coeffs", "stiffness_physicals"}

\* C11: a result carries prbParams exactly when a PRB solver returned it: none
\* from solveLinearBeam and solveNonlinearBeam; gamma, k_theta, c_theta and one
\* physical stiffness (nothing else) from solvePRB1R; 4 link ratios, 3 stiffness
\* coefficients and 3 physical stiffnesses (nothing else) from solvePRB3R.
C11_DiagnosticBag ==
  Returned
    => /\ "prbParams" \in DOMAIN result <=> model \in PRB1RTypes \cup {PRB_3R_SU}
       /\ model \in PRB1RTypes
            => /\ DOMAIN result.prbParams = PrbFields1R
               /\ Len(result.prbParams.stiffness_physicals) = 1
       /\ model = PRB_3R_SU
            => /\ DOMAIN result.prbParams = PrbFields3R
               /\ Len(result.prbParams.links) = 4
               /\ Len(result.prbParams.stiffness_coeffs) = 3
               /\ Len(result.prbParams.stiffness_physicals) = 3

C11_Witness ==
  /\ Returned /\ model = PRB_3R_SU /\ Stiffness # 0 /\ ~ZeroLoad(params)
  /\ Len(result.prbParams.stiffness_physicals) = 3
  /\ result.prbParams.stiffness_physicals[1] # 0

\* C12: the link ratios that solvePRB3R uses and reports in prbParams.links are
\* 0.10, 0.35, 0.40, 0.15 and sum to exactly 1, whatever the input.
C12_LinksSumToOne ==
  (Returned /\ model = PRB_3R_SU)
    => /\ result.prbParams.links = <<Num(10, 100), Num(35, 100), Num(40, 100), Num(15, 100)>>
       /\ FAdd(FAdd(FAdd(result.prbParams.links[1], result.prbParams.links[2]),
                    result.prbParams.links[3]), result.prbParams.links[4]) = Num(1, 1)
       /\ FAdd(FAdd(FAdd(g0, g1), g2), g3) = Num(1, 1)
       /\ result.points[2].x = FMul(Num(10, 100), params.L)

C12_Witness ==
  /\ Returned /\ model = PRB_3R_SU /\ Stiffness # 0 /\ params.nP # 0
  /\ params.L = Num(2, 1) /\ result.points[2].x = Num(2, 10)
  /\ result.prbParams.links[1] + result.prbParams.links[2]
       + result.prbParams.links[3] + result.prbParams.links[4] = Scale

\* The current call is solveNonlinearBeam and the caller's first call was
\* solveLinearBeam, on the same BeamParams, both with |tipY|/L < 0.01.
SmallDeflectionPair ==
  /\ Returned /\ model = NONLINEAR /\ Stiffness # 0
  /\ calls > 0 /\ first.model = LINEAR /\ first.params = params
  /\ 100 * IAbs(result.tipY) < params.L
  /\ 100 * IAbs(first.result.tipY) < params.L

\* |v - w| <= 1% of |w|
WithinOnePercent(v, w) == 100 * IAbs(v - w) <= IAbs(w)

TipsAgree ==
  /\ WithinOnePercent(result.tipY, first.result.tipY)
  /\ WithinOnePercent(result.tipAngle, first.result.tipAngle)

Shooting == pc = "nonlinear"

\* The residual of the pass just integrated: x(L) - a and y(L) - b.
ResidualX == frame.x - frame.a
ResidualY == frame.y - frame.b

\* |e| < 1e-6, of a finite e in grid units.
Small(e) == IAbs(e) <= Scale \div 1000000

\* The first guess is (L, 0) and a pass starts from x = y = theta = 0.
ShootingStarts ==
  /\ (Shooting /\ frame.iter = 0) => frame.a = params.L /\ frame.b = 0
  /\ (Shooting /\ frame.inner /\ frame.i = 0)
       => /\ frame.x = 0 /\ frame.y = 0 /\ frame.theta = 0
          /\ frame.points = <<Point(0, 0)>>

\* The step that ends a pass: stop with (a, b) kept when both residuals are
\* small, else move (a, b) by half the residual and count the pass.
PassEndsRight ==
  (Shooting /\ frame.inner /\ ~frame'.inner)
    => IF Small(ResidualX) /\ Small(ResidualY)
       THEN /\ frame'.broke /\ frame'.iter = frame.iter
            /\ frame'.a = frame.a /\ frame'.b = frame.b
       ELSE /\ ~frame'.broke /\ frame'.iter = frame.iter + 1
            /\ IAbs(2 * (frame'.a - frame.a) - ResidualX) <= 1
            /\ IAbs(2 * (frame'.b - frame.b) - ResidualY) <= 1

\* The step after a pass: another pass if none stopped the loop and fewer than
\* 15 are done, else the return.
PassFollowsRight ==
  (Shooting /\ ~frame.inner)
    => IF ~frame.broke /\ frame.iter < 15
       THEN pc' = "nonlinear" /\ frame'.inner /\ frame'.iter = frame.iter
       ELSE pc' = "done"

\* C14: with E*I # 0 the guess starts at (L, 0); every outer pass integrates from
\* x = y = theta = 0; after a pass the loop stops with (a, b) unchanged when both
\* residuals are below 1e-6, otherwise (a, b) moves by half the residual and
\* another pass runs while fewer than 15 are done; one small residual component
\* alone does not stop the loop.
C14_ShootingLoop ==
  []ShootingStarts /\ [][PassEndsRight /\ PassFollowsRight]_vars

\* The end of a pass at which x(L) has met the guess and y(L) has not.
C14_Witness ==
  /\ Shooting /\ frame.inner /\ frame.i = 100 /\ frame.iter < 14
  /\ Small(ResidualX) /\ ~Small(ResidualY)

\* The trajectory, the running point and the angle of the pass in progress
\* belong together: i steps from (0, 0), ending at (x, y).
OnePass ==
  (Shooting /\ frame.inner)
    => /\ Len(frame.points) = frame.i + 1
       /\ frame.points[1] = Point(0, 0)
       /\ frame.points[Len(frame.points)] = Point(frame.x, frame.y)

\* C15: with E*I # 0 the result of solveNonlinearBeam is that of one pass, the
\* last one run: points is its trajectory from (0, 0), tipX and tipY are its
\* last point, tipAngle is the theta it reached at s = L.
C15_ResultOfLastPass ==
  /\ OnePass
  /\ (Shooting /\ ~frame.inner /\ work.passes > 0)
       => /\ frame.points[Len(frame.points)] = Point(frame.x, frame.y)
          /\ frame.finalTheta = frame.theta
  /\ (Returned /\ model = NONLINEAR /\ Stiffness # 0)
       => /\ result.points = frame.points
          /\ Len(result.points) = 101 /\ result.points[1] = Point(0, 0)
          /\ result.tipX = result.points[101].x /\ result.tipX = frame.x
          /\ result.tipY = result.points[101].y /\ result.tipY = frame.y
          /\ result.tipAngle = frame.theta

C15_Witness ==
  /\ Returned /\ model = NONLINEAR /\ Stiffness # 0
  /\ frame.broke /\ work.passes > 1
  /\ result.tipAngle # 0 /\ result.tipAngle = frame.theta

NonlinearReturned == Returned /\ model = NONLINEAR /\ Stiffness # 0

\* maxStress is |(P*a + nP*b + M0)*c/I| for the guess (a, b) the loop ended with
\* (to the rounding of the arithmetic; c = 1/2 and whole P, nP, M0, I).
StressOfFinalGuess ==
  Near(result.maxStress,
       IAbs(Whole(params.P) * frame.a + Whole(params.nP) * frame.b + params.M0),
       2 * Whole(params.I), 1)

\* The final guess is the load point the returned polyline was integrated with.
GuessIsLoadPoint == frame.a = work.a /\ frame.b = work.b

\* C16 as stated: with E*I # 0, maxStress is |(P*a + nP*b + M0)*c/I| with (a, b)
\* the load point used when integrating the returned polyline, on early exit
\* and after 15 passes alike.
C16_StressAtLoadPoint ==
  NonlinearReturned => StressOfFinalGuess /\ GuessIsLoadPoint

\* C16 amended: maxStress is |(P*a + nP*b + M0)*c/I| with (a, b) the guess as the
\* loop left it: the load point of the returned polyline on early exit, and that
\* load point moved by half the last residual after 15 passes without exit.
C16_StressAtFinalGuess ==
  NonlinearReturned
    => /\ StressOfFinalGuess
       /\ IF frame.broke THEN GuessIsLoadPoint
          ELSE /\ IAbs(2 * (frame.a - work.a) - (frame.x - work.a)) <= 1
               /\ IAbs(2 * (frame.b - work.b) - (frame.y - work.b)) <= 1
               /\ ~GuessIsLoadPoint

C16_Witness ==
  /\ NonlinearReturned /\ ~frame.broke /\ work.passes = 15
  /\ ~GuessIsLoadPoint /\ result.maxStress # 0 /\ StressOfFinalGuess

\* gamma of the combined-load selector for the ratio n (grid units):
\* clamp(0.8521 - 0.0183 n) for n > -1.83, clamp(0.9123 + 0.0146 n) otherwise.
CombinedGamma(n) ==
  LET g == IF 100 * n > -183 * Scale
           THEN Num(8521, 10000) - RDiv(183 * n, 10000)
           ELSE Num(9123, 10000) + RDiv(146 * n, 10000)
  IN  IF g < Num(70, 100) THEN Num(70, 100)
      ELSE IF g > Num(95, 100) THEN Num(95, 100) ELSE g

\* The three constants the selector (and the ratio n) determine.
SelectedConstants(type, n) ==
  IF type = PRB_1R_CANTILEVER_P
    THEN <<Num(8517, 10000), Num(26706, 10000), Num(12407, 10000)>>
  ELSE IF type = PRB_1R_CANTILEVER_PNP
    THEN <<CombinedGamma(n), Num(265, 100), Num(124, 100)>>
  ELSE <<Num(7346, 10000), Num(15164, 10000), Num(1, 1)>>

\* C17: the constants solvePRB1R reports depend on the selector alone (and on n
\* for the combined case) and have the tabulated values; the one physical
\* stiffness reported is gamma * K_theta * E*I / L of the reported gamma, k_theta.
C17_ConstantsBySelector ==
  (Returned /\ model \in PRB1RTypes)
    => /\ <<result.prbParams.gamma, result.prbParams.k_theta,
            result.prbParams.c_theta>> = SelectedConstants(model, frame.n)
       /\ Near(result.prbParams.stiffness_physicals[1],
               FMul(result.prbParams.gamma, result.prbParams.k_theta)
                 * Whole(params.E) * Whole(params.I),
               Whole(params.L), 1)

C17_Witness ==
  /\ Returned /\ CombinedLoad /\ Stiffness # 0 /\ frame.n = Num(1, 1)
  /\ result.prbParams.gamma = Num(8521 - 183, 10000)
  /\ result.prbParams.stiffness_physicals[1] > Scale

\* The Newton loop is running, on the grid of Scale or of Fine.
NewtonRun == pc \in {"prb1r", "prb1r_fine"}
FineRun == "Kf" \in DOMAIN frame
NewtonIterates == NewtonRun /\ work'.newton = work.newton + 1

\* f(Theta) = K*Theta - (P*gamma*L*cos Theta + nP*gamma*L*sin Theta + M0) and its
\* derivative f'(Theta) = K + P*gamma*L*sin Theta - nP*gamma*L*cos Theta.
NewtonF(p, f) ==
  FSub(FMul(f.K, f.Theta),
       FAdd(FAdd(FMul(FMul(FMul(p.P, f.gamma), p.L), FCos(f.Theta)),
                 FMul(FMul(FMul(p.nP, f.gamma), p.L), FSin(f.Theta))), p.M0))

NewtonDF(p, f) ==
  FSub(FAdd(f.K, FMul(FMul(FMul(p.P, f.gamma), p.L), FSin(f.Theta))),
       FMul(FMul(FMul(p.nP, f.gamma), p.L), FCos(f.Theta)))

\* The quotient f/f' at the Theta the iteration starts from (P = nP = 0 on the
\* fine grid).
NewtonQuotient ==
  IF FineRun
  THEN FineDiv(FineMul(frame.Kf, frame.Theta) - Refine(params.M0), frame.Kf)
  ELSE FDiv(NewtonF(params, frame), NewtonDF(params, frame))

\* 0.8 times the quotient.
Damped(delta) ==
  IF FineRun THEN FineMul(delta, Refine(Num(8, 10))) ELSE FMul(delta, Num(8, 10))

\* |v| < 1e-8 on the grid of the run.
Below(v) ==
  IF FineRun THEN IAbs(v) <= (Fine - 1) \div 100000000
  ELSE FLtLit(FAbs(v), 1, 100000000)

\* The amount by which the iteration changes Theta.
ThetaChange ==
  IF FineRun THEN frame'.Theta - frame.Theta ELSE FSub(frame'.Theta, frame.Theta)

NewtonStarts == (NewtonRun /\ work.newton = 0) => frame.Theta = 0 /\ ~frame.broke

NewtonCount ==
  (Returned /\ model \in PRB1RTypes)
    => work.newton \in 1..30 /\ (frame.broke \/ work.newton = 30)

\* An iteration replaces Theta by Theta - 0.8*f(Theta)/f'(Theta).
NewtonReplaces ==
  NewtonIterates
    => /\ frame'.delta = NewtonQuotient
       /\ frame'.Theta = (IF FineRun THEN frame.Theta - Damped(frame'.delta)
                          ELSE FSub(frame.Theta, Damped(frame'.delta)))

\* C18 as stated: Theta starts at 0, each iteration replaces it by
\* Theta - 0.8*f/f', there are 1 to 30 iterations, and the loop stops early
\* exactly when the amount by which Theta changed in the iteration is below 1e-8.
C18_StopsOnThetaChange ==
  /\ [](NewtonStarts /\ NewtonCount)
  /\ [][NewtonReplaces /\ (NewtonIterates => (frame'.broke <=> Below(ThetaChange)))]_vars

\* C18 amended: the same, the loop stopping early exactly when the quotient f/f'
\* of the iteration is below 1e-8 in magnitude; Theta changed by 0.8 times that,
\* so an iteration that changes Theta by less than 1e-8 may be followed by another.
C18_StopsOnQuotient ==
  /\ [](NewtonStarts /\ NewtonCount)
  /\ [][NewtonReplaces /\ (NewtonIterates => (frame'.broke <=> Below(frame'.delta)))]_vars

C18_Witness ==
  /\ pc = "prb1r_fine" /\ work.newton > 1 /\ ~frame.broke
  /\ ~Below(frame.delta) /\ Below(Damped(frame.delta))

PRB1RReturned == Returned /\ model \in PRB1RTypes /\ ~FineRun

\* The second link, from the joint to the tip, has the length gamma*L of a rigid
\* link (to the rounding of sin and cos), when the rotation is finite.
RigidLink ==
  IsFinite(frame.Theta)
    => IAbs(FMul(result.tipX - result.points[2].x, result.tipX - result.points[2].x)
              + FMul(result.tipY, result.tipY)
              - FMul(FMul(frame.gamma, params.L), FMul(frame.gamma, params.L))) <= 8

\* C19: the solvePRB1R result is the two-link geometry of the final Theta: points
\* (0, 0), (L*(1 - gamma), 0), (a, b) with a = L*(1 - gamma) + gamma*L*cos Theta
\* and b = gamma*L*sin Theta; tipX, tipY are the last point; tipAngle is
\* c_theta*Theta; maxStress is 0.
C19_TwoLinkGeometry ==
  PRB1RReturned
    => /\ Len(result.points) = 3
       /\ result.points[1] = Point(0, 0)
       /\ result.points[2] = Point(FMul(params.L, FSub(Scale, frame.gamma)), 0)
       /\ result.points[3] = Point(result.tipX, result.tipY)
       /\ result.tipX = FAdd(result.points[2].x,
                             FMul(FMul(frame.gamma, params.L), FCos(frame.Theta)))
       /\ result.tipY = FMul(FMul(frame.gamma, params.L), FSin(frame.Theta))
       /\ result.tipAngle = FMul(frame.c_theta, frame.Theta)
       /\ result.maxStress = 0
       /\ RigidLink

C19_Witness ==
  /\ PRB1RReturned /\ frame.broke /\ work.newton > 1
  /\ frame.Theta > 0 /\ result.tipY > 0 /\ result.tipX < params.L
  /\ result.tipAngle > frame.Theta

Relaxing == pc = "prb3r"
RelaxIterates == Relaxing /\ work'.relax = work.relax + 1

\* The moment about (x, y) of the loads applied at the tip (a, b).
MomentAbout(a, b, x, y) ==
  FAdd(FAdd(FMul(params.P, FSub(a, x)), FMul(params.nP, FSub(b, y))), params.M0)

\* T + 0.1*(M/K - T)
Relaxed(T, M, K) == FAdd(T, FMul(FSub(FDiv(M, K), T), Num(1, 10)))

\* The chain of the rotations T1, T2, T3: joint 1 at (g0*L, 0), joints 2 and 3
\* and the tip.
ChainX(n, T1, T2, T3) ==
  FMul(params.L,
       FAdd(FAdd(FAdd(g0, IF n >= 1 THEN FMul(g1, FCos(T1)) ELSE 0),
                 IF n >= 2 THEN FMul(g2, FCos(FAdd(T1, T2))) ELSE 0),
            IF n >= 3 THEN FMul(g3, FCos(FAdd(FAdd(T1, T2), T3))) ELSE 0))

ChainY(n, T1, T2, T3) ==
  FMul(params.L,
       FAdd(FAdd(IF n >= 1 THEN FMul(g1, FSin(T1)) ELSE 0,
                 IF n >= 2 THEN FMul(g2, FSin(FAdd(T1, T2))) ELSE 0),
            IF n >= 3 THEN FMul(g3, FSin(FAdd(FAdd(T1, T2), T3))) ELSE 0))

\* The moment at joint n + 1 from the rotations T1, T2, T3.
JointMoment(n, T1, T2, T3) ==
  MomentAbout(ChainX(3, T1, T2, T3), ChainY(3, T1, T2, T3),
              ChainX(n, T1, T2, T3), ChainY(n, T1, T2, T3))

RelaxStarts ==
  Relaxing
    => /\ work.relax = 0 => frame.T1 = 0 /\ frame.T2 = 0 /\ frame.T3 = 0
       /\ frame.K1 = FMul(K_c1, FDiv(Stiffness, params.L))
       /\ frame.K2 = FMul(K_c2, FDiv(Stiffness, params.L))
       /\ frame.K3 = FMul(K_c3, FDiv(Stiffness, params.L))

RelaxCount == (Returned /\ model = PRB_3R_SU) => work.relax = 150

\* Every update of an iteration uses the moments of the rotations the iteration
\* started with.
RelaxTogether ==
  RelaxIterates
    => /\ frame'.T1 = Relaxed(frame.T1, JointMoment(0, frame.T1, frame.T2, frame.T3),
                              frame.K1)
       /\ frame'.T2 = Relaxed(frame.T2, JointMoment(1, frame.T1, frame.T2, frame.T3),
                              frame.K2)
       /\ frame'.T3 = Relaxed(frame.T3, JointMoment(2, frame.T1, frame.T2, frame.T3),
                              frame.K3)

\* C20: solvePRB3R starts from T1 = T2 = T3 = 0, makes exactly 150 iterations
\* whatever happens, and in each computes the tip, the joints and the three
\* moments from the rotations of the start of the iteration before updating any
\* rotation by T_i += 0.1*(M_i/K_i - T_i), K_i = K_ci*E*I/L.
C20_SimultaneousRelaxation ==
  [](RelaxStarts /\ RelaxCount) /\ [][RelaxTogether]_vars

C20_Witness ==
  /\ Returned /\ model = PRB_3R_SU /\ work.relax = 150
  /\ params.P # 0 /\ params.nP # 0 /\ Stiffness # 0
  /\ frame.T1 > frame.T2 /\ frame.T2 > frame.T3 /\ frame.T3 > 0

PRB3RReturned == Returned /\ model = PRB_3R_SU

\* Point q is point p moved by a link of length g*L at the angle t.
LinkFrom(p, q, g, t) ==
  /\ q.x = FAdd(p.x, FMul(FMul(g, params.L), FCos(t)))
  /\ q.y = FAdd(p.y, FMul(FMul(g, params.L), FSin(t)))

\* For finite coordinates, the link from p to q has length g*L (to the rounding
\* of sin and cos).
LinkLength(p, q, g) ==
  (IsFinite(q.x) /\ IsFinite(q.y))
    => IAbs(FMul(q.x - p.x, q.x - p.x) + FMul(q.y - p.y, q.y - p.y)
              - FMul(FMul(g, params.L), FMul(g, params.L))) <= 8

\* v and w are the same number to the rounding of the arithmetic (both
\* undefined, or at most 2 grid units apart).
SameNumber(v, w) == IF IsFinite(v) /\ IsFinite(w) THEN IAbs(v - w) <= 2 ELSE v = w

\* C21: the solvePRB3R result is the forward kinematics of the final rotations:
\* origin, (g0*L, 0) and three joints reached by links g1*L, g2*L, g3*L at the
\* angles T1, T1+T2, T1+T2+T3; tipX, tipY are the fifth point, the function of
\* the rotations that places the load (a, b) inside the iteration;
\* tipAngle = T1+T2+T3; maxStress = 0.
C21_ForwardKinematics ==
  PRB3RReturned
    => /\ Len(result.points) = 5
       /\ result.points[1] = Point(0, 0)
       /\ result.points[2] = Point(FMul(g0, params.L), 0)
       /\ LinkFrom(result.points[2], result.points[3], g1, frame.T1)
       /\ LinkFrom(result.points[3], result.points[4], g2, FAdd(frame.T1, frame.T2))
       /\ LinkFrom(result.points[4], result.points[5], g3,
                   FAdd(FAdd(frame.T1, frame.T2), frame.T3))
       /\ LinkLength(result.points[2], result.points[3], g1)
       /\ LinkLength(result.points[3], result.points[4], g2)
       /\ LinkLength(result.points[4], result.points[5], g3)
       /\ result.points[5] = Point(result.tipX, result.tipY)
       /\ SameNumber(result.tipX, ChainX(3, frame.T1, frame.T2, frame.T3))
       /\ SameNumber(result.tipY, ChainY(3, frame.T1, frame.T2, frame.T3))
       /\ result.tipAngle = FAdd(FAdd(frame.T1, frame.T2), frame.T3)
       /\ result.maxStress = 0

C21_Witness ==
  /\ PRB3RReturned /\ Stiffness # 0 /\ params.P # 0
  /\ frame.T1 > 0 /\ frame.T2 > 0 /\ frame.T3 > 0
  /\ result.points[3].y > 0 /\ result.points[4].y > result.points[3].y
  /\ result.tipY > result.points[4].y /\ result.tipX < params.L
  /\ result.tipAngle > frame.T1

\* ---------------------------------------------------------------- App

MaxEvents == 2

\* The render is complete: the results memo holds its full list and no
\* solver is running, so the controls can take the next event.
Rendered == pc = "idle" /\ Len(results) = Len(selectedModels)

Includes(list, m) == \E i \in 1..Len(list) : list[i] = m

Without(list, m) == SelectSeq(list, LAMBDA x : x # m)

\* toggleModel keeps adding, whether or not the model is selected.
toggleModel_AlwaysAdds(m) ==
  /\ Rendered
  /\ events < MaxEvents
  /\ selectedModels' = Append(selectedModels, m)
  /\ results' = <<>>
  /\ events' = events + 1
  /\ UNCHANGED <<params, pc, model, frame, work, result, calls, first,
                 unitSystem, sectionType, dimensions>>

\* toggleModel of Controls: removes the model if it is selected, appends it if
\* it is not; the new selection invalidates the results memo.
toggleModel(m) ==
  /\ Rendered
  /\ events < MaxEvents
  /\ selectedModels' = IF Includes(selectedModels, m)
                       THEN Without(selectedModels, m)
                       ELSE Append(selectedModels, m)
  /\ results' = <<>>
  /\ events' = events + 1
  /\ UNCHANGED <<params, pc, model, frame, work, result, calls, first,
                 unitSystem, sectionType, dimensions>>

\* The selector the forEach of the results memo is at.
Selector == selectedModels[Len(results) + 1]

\* The switch of the results memo: the solver of the selector is called.
Dispatch ==
  /\ Len(results) < Len(selectedModels)
  /\ \/ Selector = LINEAR /\ CallLinear
     \/ Selector = NONLINEAR /\ CallNonlinear
     \/ Selector \in PRB1RTypes /\ CallPRB1R(Selector)
     \/ Selector = PRB_3R_SU /\ CallPRB3R

\* res.push of the results memo: the returned value joins the list.
Push ==
  /\ pc = "done"
  /\ results' = Append(results, result)
  /\ pc' = "idle"
  /\ model' = ""
  /\ frame' = NoFrame
  /\ work' = NoWork
  /\ result' = NoResult
  /\ UNCHANGED <<params, calls, first, unitSystem, sectionType, dimensions,
                 selectedModels, events>>

\* The steps inside the solvers, between a call and its return.
SolverStep ==
  \/ PassBegin \/ RK4Iteration \/ PassEnd \/ NonlinearReturn
  \/ LinearStep \/ LinearReturn
  \/ NewtonIteration \/ PRB1RReturn
  \/ RelaxIteration \/ PRB3RReturn

\* The App rendering under model toggles: a beam without load and a beam
\* without stiffness.
SelectInputs == {BeamParams(2, 1, 1, 0, 0, 0), BeamParams(1, 0, 1, 1, 1, 0)}

InitSelect == InitWith(SelectInputs)

NextSelect ==
  \/ \E m \in BeamModelType : toggleModel(m)
  \/ Dispatch \/ SolverStep \/ Push

SpecSelect == InitSelect /\ [][NextSelect]_vars

\* ------------------------------------------------- C22 model selection

NoDuplicates(list) ==
  \A i, j \in 1..Len(list) : list[i] = list[j] => i = j

\* The label and the number of points of a value returned for a selector.
LabelOf(m) ==
  IF m = LINEAR THEN "Linear"
  ELSE IF m = NONLINEAR THEN "Nonlinear"
  ELSE IF m = PRB_3R_SU THEN "PRB 3R"
  ELSE PRB1RConstants(m, 0).label

PointsOf(m) ==
  IF m = LINEAR THEN {LinearSteps + 1}
  ELSE IF m = NONLINEAR THEN {0, steps + 1}
  ELSE IF m = PRB_3R_SU THEN {5}
  ELSE {3}

ResultOf(m, r) == r.label = LabelOf(m) /\ Len(r.points) \in PointsOf(m)

\* C22: from the default selection and under any toggles, no model is selected
\* twice; the results list holds, in selection order, one result per selected
\* model, each of the solver of that selector (the PRB-1R solver having been
\* given the selector itself); and the only solver ever running is the one of the selector the memo is at.
C22_OneResultPerSelectedModel ==
  /\ NoDuplicates(selectedModels)
  /\ Len(results) <= Len(selectedModels)
  /\ \A i \in 1..Len(results) : ResultOf(selectedModels[i], results[i])
  /\ pc # "idle" =>
       /\ Len(results) < Len(selectedModels)
       /\ model = Selector
       /\ Includes(selectedModels, model)

\* A render completed after a model was removed and another one added.
C22_Witness ==
  /\ Rendered
  /\ events = 2
  /\ selectedModels = <<LINEAR, PRB_1R_CANTILEVER_PNP, PRB_3R_SU, PRB_1R_MOMENT>>
  /\ results[4].label = "PRB 1R (M)"
  /\ Len(results[1].points) = LinearSteps + 1

\* ------------------------------------------------ units and sections

MaxEdits == 3

\* The text of an input field, character by character.
DigitChars == <<"0", "1", "2", "3", "4", "5", "6", "7", "8", "9">>

IsDigit(ch) == \E i \in 1..10 : DigitChars[i] = ch

DigitOf(ch) == (CHOOSE i \in 1..10 : DigitChars[i] = ch) - 1

RECURSIVE Pow10(_)
Pow10(k) == IF k = 0 THEN 1 ELSE 10 * Pow10(k - 1)

\* The longest prefix of text from position i that is digits with at most one
\* decimal point: its digits as an integer m, the number k of them behind the
\* point, and whether there was any digit.
RECURSIVE ScanNumber(_, _, _, _, _, _)
ScanNumber(text, i, m, k, point, any) ==
  IF i > Len(text) THEN [m |-> m, k |-> k, any |-> any]
  ELSE IF IsDigit(text[i])
  THEN ScanNumber(text, i + 1, 10 * m + DigitOf(text[i]),
                  IF point THEN k + 1 ELSE k, point, TRUE)
  ELSE IF text[i] = "." /\ ~point
  THEN ScanNumber(text, i + 1, m, k, TRUE, any)
  ELSE [m |-> m, k |-> k, any |-> any]

Scanned(negative, s) ==
  IF s.any THEN Signed(negative, RDiv(s.m * Scale, Pow10(s.k))) ELSE NaN

\* The same number times 1e9, taken from the digits in one step: the modulus
\* is typed in GPa or Mpsi, and a text like 0.00001 is itself below the grid.
ScannedGiga(negative, s) ==
  IF ~s.any THEN NaN
  ELSE IF s.k <= 9 THEN Signed(negative, s.m * Pow10(9 - s.k) * Scale)
  ELSE Signed(negative, RDiv(s.m * Scale, Pow10(s.k - 9)))

\* parseFloat of a text without blanks or exponent: an optional sign and the
\* longest numeric prefix, NaN when that prefix has no digit.
parseFloat(text) ==
  IF text # <<>> /\ text[1] \in {"-", "+"}
  THEN Scanned(text[1] = "-", ScanNumber(text, 2, 0, 0, FALSE, FALSE))
  ELSE Scanned(FALSE, ScanNumber(text, 1, 0, 0, FALSE, FALSE))

\* parseFloat(text) * 1e9
parseFloatGiga(text) ==
  IF text # <<>> /\ text[1] \in {"-", "+"}
  THEN ScannedGiga(text[1] = "-", ScanNumber(text, 2, 0, 0, FALSE, FALSE))
  ELSE ScannedGiga(FALSE, ScanNumber(text, 1, 0, 0, FALSE, FALSE))

\* Math.PI
PI == Num(31416, 10000)

\* A section dimension in metres: mm / 1000 or in * 0.0254.
Metres(v, us) ==
  IF us = METRIC THEN FDiv(v, Num(1000, 1)) ELSE FMul(v, Num(254, 10000))

\* The useEffect of App: I, c and A of the section, from the displayed
\* dimensions and the unit system; the other fields of params stay.
SectionOf(p, st, dims, us) ==
  IF st = RECTANGULAR
  THEN [p EXCEPT
          !.I = FDiv(FMul(Metres(dims.width, us),
                          FMul(FMul(Metres(dims.height, us), Metres(dims.height, us)),
                               Metres(dims.height, us))),
                     Num(12, 1)),
          !.c = FDiv(Metres(dims.height, us), Num(2, 1)),
          !.A = FMul(Metres(dims.width, us), Metres(dims.height, us))]
  ELSE [p EXCEPT
          !.I = FDiv(FMul(PI, FMul(FMul(Metres(dims.diameter, us), Metres(dims.diameter, us)),
                                   FMul(Metres(dims.diameter, us), Metres(dims.diameter, us)))),
                     Num(64, 1)),
          !.c = FDiv(Metres(dims.diameter, us), Num(2, 1)),
          !.A = FDiv(FMul(PI, FMul(Metres(dims.diameter, us), Metres(dims.diameter, us))),
                     Num(4, 1))]

OtherSystem(us) == IF us = METRIC THEN ENGLISH ELSE METRIC

\* The displayed dimensions in the unit system next: in = mm / 25.4 and
\* mm = in * 25.4.
Rescaled(v, next) ==
  IF next = ENGLISH THEN FDiv(v, Num(254, 10)) ELSE FMul(v, Num(254, 10))

RescaledDimensions(dims, next) ==
  [width |-> Rescaled(dims.width, next), height |-> Rescaled(dims.height, next),
   diameter |-> Rescaled(dims.diameter, next)]

\* handleToggleUnitSystem of App, with the effect and the memo it triggers.
handleToggleUnitSystem ==
  /\ Rendered
  /\ events < MaxEdits
  /\ unitSystem' = OtherSystem(unitSystem)
  /\ dimensions' = RescaledDimensions(dimensions, unitSystem')
  /\ params' = SectionOf(params, sectionType, dimensions', unitSystem')
  /\ results' = <<>>
  /\ events' = events + 1
  /\ UNCHANGED <<pc, model, frame, work, result, calls, first, sectionType,
                 selectedModels>>

\* handleDimChange of Controls, with the effect and the memo it triggers; a
\* value that does not parse changes nothing.
handleDimChange(name, value) ==
  /\ Rendered
  /\ events < MaxEdits
  /\ events' = events + 1
  /\ IF parseFloat(value) = NaN
     THEN UNCHANGED <<params, dimensions, results>>
     ELSE /\ dimensions' = [dimensions EXCEPT ![name] = parseFloat(value)]
          /\ params' = SectionOf(params, sectionType, dimensions', unitSystem)
          /\ results' = <<>>
  /\ UNCHANGED <<pc, model, frame, work, result, calls, first, unitSystem,
                 sectionType, selectedModels>>

\* setSectionType from the section buttons of Controls, with the effect and
\* the memo it triggers; choosing the type already set changes nothing.
setSectionType(type) ==
  /\ Rendered
  /\ events < MaxEdits
  /\ events' = events + 1
  /\ sectionType' = type
  /\ IF type = sectionType
     THEN UNCHANGED <<params, results>>
     ELSE /\ params' = SectionOf(params, type, dimensions, unitSystem)
          /\ results' = <<>>
  /\ UNCHANGED <<pc, model, frame, work, result, calls, first, unitSystem,
                 dimensions, selectedModels>>

\* useState of App for params, once the mount effect has set I, c and A. E, in
\* Pa, is far beyond the grid at its default of 30e6 psi: it starts at 6e4 Pa,
\* a value of the grid that the modulus control can set.
DefaultParams ==
  SectionOf([E |-> Num(60000, 1), I |-> 0, L |-> Num(508, 1000), P |-> Num(2224, 1000),
             nP |-> 0, M0 |-> 0, c |-> 0, A |-> 0],
            RECTANGULAR, DefaultDimensions, ENGLISH)

\* The texts typed into the dimension fields; a cleared field delivers the
\* empty text.
DimensionTexts == {<<>>, <<"1", "3", ".", "1", "5">>}

DimensionNames == {"width", "height", "diameter"}

InitUnits == InitWith({DefaultParams})

NextUnits ==
  \/ handleToggleUnitSystem
  \/ \E name \in DimensionNames, value \in DimensionTexts : handleDimChange(name, value)
  \/ \E type \in {RECTANGULAR, CIRCULAR} : setSectionType(type)
  \/ Dispatch \/ SolverStep \/ Push

SpecUnits == InitUnits /\ [][NextUnits]_vars

\* ------------------------------------------------- C23 unit toggles

Toggled == unitSystem' # unitSystem

\* The displayed dimensions after two consecutive toggles.
ToggledTwice ==
  RescaledDimensions(RescaledDimensions(dimensions, OtherSystem(unitSystem)), unitSystem)

\* C23: a toggle of the unit system leaves I, c and A, and E, L, P, nP and M0,
\* as they were, whatever dimension and section edits came before, and two
\* consecutive toggles restore the displayed dimensions.
C23_ToggleKeepsSI ==
  [][Toggled => params' = params /\ ToggledTwice = dimensions]_vars

\* A toggle to English units after the height was set to 13.15 mm: c, half the
\* height in metres, is not what it was.
C23_Witness ==
  /\ unitSystem = ENGLISH
  /\ events = 3
  /\ sectionType = RECTANGULAR
  /\ params.c # FDiv(FDiv(Num(1315, 100), Num(1000, 1)), Num(2, 1))
  /\ dimensions.height = FDiv(Num(1315, 100), Num(254, 10))

\* ----------------------------------------------------- numeric edits

\* The SI value of one English unit of a field: 0.0254 m per in, 4.44822 N
\* per lbf, 0.112985 N*m per lbf*in.
EnglishFactor(name) ==
  IF name = "L" THEN Num(254, 10000)
  ELSE IF name = "M0" THEN RDiv(112985 * 3, 100)
  ELSE RDiv(444822 * 3, 10)

\* handleNumericChange of Controls for L, P, nP and M0, with the memo it
\* triggers; a value that does not parse changes nothing.
handleNumericChange(name, value) ==
  /\ Rendered
  /\ events < MaxEvents
  /\ events' = events + 1
  /\ IF parseFloat(value) = NaN
     THEN UNCHANGED <<params, results>>
     ELSE /\ params' = [params EXCEPT ![name] =
                          IF unitSystem = METRIC THEN parseFloat(value)
                          ELSE FMul(parseFloat(value), EnglishFactor(name))]
          /\ results' = <<>>
  /\ UNCHANGED <<pc, model, frame, work, result, calls, first, unitSystem,
                 sectionType, dimensions, selectedModels>>

\* The onChange of the modulus field E_gpa, with the memo it triggers: E
\* becomes parseFloat(value) * 1e9 in metric units and * 6.89476e9 in English
\* ones, whatever parseFloat returned.
onChange_E_gpa(value) ==
  /\ Rendered
  /\ events < MaxEvents
  /\ events' = events + 1
  /\ params' = [params EXCEPT !.E =
                  IF unitSystem = METRIC THEN parseFloatGiga(value)
                  ELSE FMul(parseFloatGiga(value), RDiv(689476 * 3, 10))]
  /\ results' = <<>>
  /\ UNCHANGED <<pc, model, frame, work, result, calls, first, unitSystem,
                 sectionType, dimensions, selectedModels>>

NumericNames == {"L", "P", "nP", "M0"}

\* The texts typed into the fields of L, P, nP and M0, and into the modulus
\* field.
NumericTexts == {<<>>, <<"1", "0">>}

ModulusTexts == {<<>>, <<"0", ".", "0", "0", "0", "0", "1">>}

InitEdits == InitWith({DefaultParams})

NextEdits ==
  \/ \E name \in NumericNames, value \in NumericTexts : handleNumericChange(name, value)
  \/ \E value \in ModulusTexts : onChange_E_gpa(value)
  \/ events < MaxEvents /\
       \E name \in DimensionNames, value \in DimensionTexts : handleDimChange(name, value)
  \/ events < MaxEvents /\ handleToggleUnitSystem
  \/ Dispatch \/ SolverStep \/ Push

SpecEdits == InitEdits /\ [][NextEdits]_vars

\* ------------------------------------------- C24 unparsable values

\* The event handled is an edit of a numeric control with a text that does
\* not parse.
UnparsableEdit ==
  \/ \E name \in NumericNames, value \in NumericTexts :
       parseFloat(value) = NaN /\ handleNumericChange(name, value)
  \/ \E value \in ModulusTexts : parseFloat(value) = NaN /\ onChange_E_gpa(value)
  \/ \E name \in DimensionNames, value \in DimensionTexts :
       parseFloat(value) = NaN /\ handleDimChange(name, value)

NoFieldNaN(p) == \A field \in DOMAIN p : p[field] # NaN

\* C24: an edit of L, P, nP, M0, E or a dimension with a text that does not
\* parse leaves params and dimensions as they were, and no field of the params
\* the solvers are given is ever NaN.
C24_UnparsableIgnored ==
  /\ [](NoFieldNaN(params))
  /\ [][UnparsableEdit => UNCHANGED <<params, dimensions>>]_vars

\* The modulus field was cleared: E is NaN and the solvers returned for it.
C24_Witness ==
  /\ Rendered
  /\ events = 1
  /\ params.E = NaN
  /\ Len(results) = 4
  /\ results[1].tipY = NaN

====
